---- MODULE Spec2Model ----
(***************************************************************************)
(* Model of the manga panel pipeline of panelreader.koplugin:              *)
(*   src/process_manga.py       (Kumiko pipeline)                          *)
(*   src/Magi/process_manga.py  (MAGI pipeline)                            *)
(*   src/Magi/magi.py           (MAGI detector script)                     *)
(*                                                                         *)
(* Two specifications share the module:                                    *)
(*   SpecNorm  the coordinate normalizers applied to bounded inputs        *)
(*   SpecArch  extract_archive and the head of process_input on bounded    *)
(*             input paths                                                 *)
(*   SpecList  the directory listings of a run under two orders in which   *)
(*             the filesystem may return the entries                       *)
(*   Spec      one run of process_input on a bounded input folder          *)
(***************************************************************************)
EXTENDS Integers, Sequences, FiniteSets, TLC

VARIABLES
  nin,      \* normalizer input: image size, raw box, how dimensions are known
  nout,     \* normalizer output: the denominators used and the panel built
  ain,      \* the input path: what it is, its name, its content, how the tools end
  aout,     \* what extract_archive / the head of process_input did with it
  order,    \* two orders in which the filesystem may return the files of the tree
  listed,   \* the sorted listings a run obtains under each of the two orders
  pipeline, \* "kumiko" (src/process_manga.py) or "magi" (src/Magi/process_manga.py)
  ci,       \* TRUE when the platform matches glob patterns case-insensitively
  tree,     \* the files under the input folder
  out,      \* the output directory: document name -> content
  written,  \* history: the documents this run wrote successfully
  pc,       \* where the run stands
  mode,     \* "flat" or "chapters" once process_input has routed the folder
  chapter_dirs,        \* the sorted chapter directories of a chapter-based run
  chIdx,               \* index of the chapter being processed
  image_files,         \* the sorted image list of the current unit
  imgIdx,              \* number of images of the unit already handed to the detector
  temp,                \* the unit's temporary directory: stem -> detector output
  json_files,          \* the result files collected for the unit, by stem
  panels_file,         \* panels.json in the MAGI script directory
  successful_chapters, \* counter of process_chapter_based_archive
  temps,               \* names of the units whose temporary directory exists
  lastWrite,           \* outcome of the latest document write
  result,              \* what process_input returned
  history              \* history: the unit's images whose detection succeeded,
                       \* whether a detection or a write of the run has failed,
                       \* what the latest detection did, and the chapter
                       \* directories the chapter loop has taken up

normVars == <<nin, nout>>
archVars == <<ain, aout>>
listVars == <<order, listed>>
pipeVars == <<pipeline, ci, tree, out, written, pc, mode, chapter_dirs, chIdx,
              image_files, imgIdx, temp, json_files, panels_file,
              successful_chapters, temps, lastWrite, result, history>>
vars == <<normVars, archVars, listVars, pipeVars>>

(***************************************************************************)
(* IEEE-754 double arithmetic, as far as the normalizers use it.           *)
(* A float is [sig, exp, dir]: sig is the 53-bit significand (most         *)
(* significant bit first), the value is sig * 2^exp, and dir is the sign   *)
(* of (float - exact value) left by the last rounding.                     *)
(***************************************************************************)
MantBits == 53

\* Pow2[k + 1] = 2^k
Pow2 == <<1, 2, 4, 8, 16, 32, 64, 128, 256, 512>>

RECURSIVE QuotLimbs(_, _, _, _)
\* n more base-512 digits of r/m after the point (0 <= r < m), appended to
\* acc, and the remainder left
QuotLimbs(r, m, n, acc) ==
  IF n = 0 THEN [limbs |-> acc, rem |-> r]
  ELSE QuotLimbs((512 * r) % m, m, n - 1, acc \o <<(512 * r) \div m>>)

\* the binary digits of a string of base-512 digits, and back
LimbsToBits(l) ==
  [j \in 1..(9 * Len(l)) |->
     (l[((j - 1) \div 9) + 1] \div Pow2[9 - ((j - 1) % 9)]) % 2]

RECURSIVE BitsNat(_)
\* the natural number a short bit string denotes
BitsNat(b) ==
  IF b = <<>> THEN 0 ELSE 2 * BitsNat(SubSeq(b, 1, Len(b) - 1)) + b[Len(b)]

BitsToLimbs(b) ==
  LET n   == (Len(b) + 8) \div 9
      pad == [i \in 1..(9 * n - Len(b)) |-> 0] \o b
  IN  [i \in 1..n |-> BitsNat(SubSeq(pad, 9 * (i - 1) + 1, 9 * i))]

\* the bit string without its leading zeros
StripBits(b) ==
  IF \A i \in 1..Len(b) : b[i] = 0 THEN <<>>
  ELSE LET first == CHOOSE i \in 1..Len(b) :
                      b[i] = 1 /\ \A j \in 1..(i - 1) : b[j] = 0
       IN  SubSeq(b, first, Len(b))

\* the bit string plus one (one digit longer when it was all ones)
IncBits(b) ==
  IF \A i \in 1..Len(b) : b[i] = 1 THEN <<1>> \o [i \in 1..Len(b) |-> 0]
  ELSE LET last == CHOOSE i \in 1..Len(b) :
                     b[i] = 0 /\ \A j \in (i + 1)..Len(b) : b[j] = 1
       IN  [i \in 1..Len(b) |-> IF i < last THEN b[i] ELSE IF i = last THEN 1 ELSE 0]

RECURSIVE MulLimbs(_, _, _)
\* exact product of a base-512 digit string and a natural number below 2^14
MulLimbs(l, w, carry) ==
  IF l = <<>> THEN <<carry \div 512, carry % 512>>
  ELSE LET t == l[Len(l)] * w + carry
       IN  MulLimbs(SubSeq(l, 1, Len(l) - 1), w, t \div 512) \o <<t % 512>>

\* exact product of a bit string and a natural number below 2^14
MulBits(b, w) == StripBits(LimbsToBits(MulLimbs(BitsToLimbs(b), w, 0)))

\* round-to-nearest-even of an exact bit string to MantBits digits;
\* sticky says that non-zero digits lie beyond the string
RoundBits(b, exp, sticky) ==
  IF Len(b) <= MantBits
  THEN [sig |-> b, exp |-> exp, dir |-> IF sticky THEN -1 ELSE 0]
  ELSE LET top  == SubSeq(b, 1, MantBits)
           low  == SubSeq(b, MantBits + 1, Len(b))
           rest == sticky \/ \E i \in 2..Len(low) : low[i] = 1
           up   == low[1] = 1 /\ (rest \/ top[MantBits] = 1)
           e    == exp + Len(low)
           inc  == IncBits(top)
           exact == low[1] = 0 /\ ~rest
       IN  IF ~up THEN [sig |-> top, exp |-> e, dir |-> IF exact THEN 0 ELSE -1]
           ELSE IF Len(inc) > MantBits
                THEN [sig |-> SubSeq(inc, 1, MantBits), exp |-> e + 1, dir |-> 1]
                ELSE [sig |-> inc, exp |-> e, dir |-> 1]

RECURSIVE ScaleQuot(_, _, _)
\* n/d * 2^e rewritten with d/2 <= n < d
ScaleQuot(n, d, e) ==
  IF n >= d THEN ScaleQuot(n, 2 * d, e + 1)
  ELSE IF 2 * n < d THEN ScaleQuot(2 * n, d, e - 1)
  ELSE [n |-> n, d |-> d, e |-> e]

\* the double nearest to n/d, for naturals 0 < n, d < 2^13  (Python: n / d)
FloatDiv(n, d) ==
  LET s == ScaleQuot(n, d, 0)
      q == QuotLimbs(s.n, s.d, 6, <<>>)
  IN  RoundBits(LimbsToBits(q.limbs), s.e - 54, q.rem # 0)

\* the double nearest to w * f, for a natural 0 < w < 2^14  (Python: w * f)
FloatMulInt(f, w) == RoundBits(MulBits(f.sig, w), f.exp, FALSE)

\* int(f) for a float f >= 0 below 2^31 with exp <= 0
FloatTrunc(f) ==
  IF -f.exp >= Len(f.sig) THEN 0
  ELSE BitsNat(SubSeq(f.sig, 1, Len(f.sig) + f.exp))

\* round(n / d, 3) in thousandths, for naturals n >= 0, d > 0: the decimal
\* nearest to the double n/d, ties of the double itself going to even
RoundNat3(n, d) ==
  LET k   == (1000 * n) \div d
      rem == 1000 * n - k * d
  IN  IF 2 * rem < d THEN k
      ELSE IF 2 * rem > d THEN k + 1
      ELSE LET dir == FloatDiv(n, d).dir
           IN  IF dir > 0 THEN k + 1
               ELSE IF dir < 0 THEN k
               ELSE IF k % 2 = 0 THEN k ELSE k + 1

\* round(n / d, 3) in thousandths for any integer n
Round3(n, d) == IF n >= 0 THEN RoundNat3(n, d) ELSE -RoundNat3(-n, d)

Max(a, b) == IF a >= b THEN a ELSE b

(***************************************************************************)
(* MAGI normalizer: combine_jsons_to_final_json, the body of the loop over *)
(* data['panels'].                                                         *)
(***************************************************************************)
magi_max_size == 800

\* int(actual * scale_factor), scale_factor = magi_max_size / max(w, h)
MagiScaled(actual, maxdim) ==
  FloatTrunc(FloatMulInt(FloatDiv(magi_max_size, maxdim), actual))

\* (coord_img_width, coord_img_height) for the actual image size
MagiCoordSize(w, h) ==
  IF Max(w, h) > magi_max_size
  THEN <<MagiScaled(w, Max(w, h)), MagiScaled(h, Max(w, h))>>
  ELSE <<w, h>>

\* the panel dictionary built from a box [x1, y1, x2, y2]; coordinates are
\* numerators over dx (x, w) and dy (y, h)
MagiPanel(box, w, h) ==
  LET c == MagiCoordSize(w, h)
  IN  [x |-> Round3(box[1], c[1]),
       y |-> Round3(box[2], c[2]),
       w |-> Round3(box[3] - box[1], c[1]),
       h |-> Round3(box[4] - box[2], c[2]),
       dx |-> 1000, dy |-> 1000, kept |-> TRUE]

(***************************************************************************)
(* Kumiko normalizer: preprocess_page_data, the loop over the panels.      *)
(* dims says whether image dimensions are known (a 'size' field or a       *)
(* readable image file); kept is FALSE for a panel the loop skips.          *)
(***************************************************************************)
KumikoListPanel(p, dims, w, h) ==
  IF dims /\ w > 0 /\ h > 0
  THEN [x |-> p[1], y |-> p[2], w |-> p[3], h |-> p[4], dx |-> w, dy |-> h,
        kept |-> TRUE]
  ELSE [x |-> p[1], y |-> p[2], w |-> p[3], h |-> p[4], dx |-> 1, dy |-> 1,
        kept |-> ~(p[1] > 1 \/ p[2] > 1 \/ p[3] > 1 \/ p[4] > 1)]

KumikoDictPanel(p, dims, w, h) ==
  IF dims /\ w > 0 /\ h > 0 /\ (p[1] > 1 \/ p[2] > 1 \/ p[3] > 1 \/ p[4] > 1)
  THEN [x |-> p[1], y |-> p[2], w |-> p[3], h |-> p[4], dx |-> w, dy |-> h,
        kept |-> TRUE]
  ELSE [x |-> p[1], y |-> p[2], w |-> p[3], h |-> p[4], dx |-> 1, dy |-> 1,
        kept |-> TRUE]

KumikoPanel(form, p, dims, w, h) ==
  IF form = "list" THEN KumikoListPanel(p, dims, w, h)
  ELSE KumikoDictPanel(p, dims, w, h)

(***************************************************************************)
(* Names.  A string is a tuple of character codes, so that the orders the  *)
(* code sorts by (Python compares strings by code point) are computed.     *)
(***************************************************************************)
Lower(s) == [i \in DOMAIN s |-> IF s[i] \in 65..90 THEN s[i] + 32 ELSE s[i]]
Upper(s) == [i \in DOMAIN s |-> IF s[i] \in 97..122 THEN s[i] - 32 ELSE s[i]]

Min(a, b) == IF a <= b THEN a ELSE b

\* a < b for two strings
StrLess(a, b) ==
  LET diff == {i \in 1..Min(Len(a), Len(b)) : a[i] # b[i]}
  IN  IF diff = {} THEN Len(a) < Len(b)
      ELSE LET i == CHOOSE j \in diff : \A k \in diff : j <= k
           IN  a[i] < b[i]

\* a < b for two lists of strings (Python list comparison)
ListLess(a, b) ==
  LET diff == {i \in 1..Min(Len(a), Len(b)) : a[i] # b[i]}
  IN  IF diff = {} THEN Len(a) < Len(b)
      ELSE LET i == CHOOSE j \in diff : \A k \in diff : j <= k
           IN  StrLess(a[i], b[i])

\* the sequence of the elements of S in ascending order of a strict total
\* order, given as the set of its pairs <<smaller, larger>>
SortSet(S, less) ==
  [i \in 1..Cardinality(S) |->
     CHOOSE x \in S : Cardinality({y \in S : <<y, x>> \in less}) = i - 1]

\* ".jpg", ".jpeg", ".png", ".bmp", ".gif", ".webp"
image_extensions ==
  << <<46, 106, 112, 103>>, <<46, 106, 112, 101, 103>>, <<46, 112, 110, 103>>,
     <<46, 98, 109, 112>>, <<46, 103, 105, 102>>, <<46, 119, 101, 98, 112>> >>

ExtSet == {image_extensions[i] : i \in DOMAIN image_extensions}

\* ".json" and "_panels.json"
JsonSuffix == <<46, 106, 115, 111, 110>>
PanelsSuffix == <<95, 112, 97, 110, 101, 108, 115>> \o JsonSuffix

(***************************************************************************)
(* The input folder.  A file is [dir, stem, ext]: dir the directory names  *)
(* below the input folder, stem and ext as Path.stem and Path.suffix give  *)
(* them.  A directory exists when a file lies in or below it.              *)
(***************************************************************************)
\* directory names "a", "b", "c"
DirA == <<97>>
DirB == <<98>>
DirC == <<99>>
Dirs == { <<>>, <<DirA>>, <<DirB>>, <<DirA, DirC>> }

\* file names "1.jpg", "10.jpg", "2.Jpg"
Names == { [stem |-> <<49>>,     ext |-> <<46, 106, 112, 103>>],
           [stem |-> <<49, 48>>, ext |-> <<46, 106, 112, 103>>],
           [stem |-> <<50>>,     ext |-> <<46, 74, 112, 103>>] }

Stems == {n.stem : n \in Names}

FileUniverse == {[dir |-> d, stem |-> n.stem, ext |-> n.ext] : d \in Dirs, n \in Names}

\* bound on the number of glob matches in the input folder
MaxListed == 3

Trees(caseInsensitive) ==
  {t \in SUBSET FileUniverse :
     Cardinality(t) * (IF caseInsensitive THEN 2 ELSE 1) <= MaxListed}

FileName(f) == f.stem \o f.ext
IsPrefix(p, d) == Len(p) <= Len(d) /\ SubSeq(d, 1, Len(p)) = p
FilesIn(d) == {f \in tree : f.dir = d}
FilesUnder(d) == {f \in tree : IsPrefix(d, f.dir)}
\* [d for d in folder.iterdir() if d.is_dir()]
SubDirs(d) ==
  {SubSeq(f.dir, 1, Len(d) + 1) :
     f \in {g \in tree : IsPrefix(d, g.dir) /\ Len(g.dir) > Len(d)}}

Fold(s) == IF ci THEN Lower(s) ELSE s

\* does the file name match the pattern "*" + suffix
GlobMatch(suffix, f) ==
  LET name == FileName(f)
  IN  /\ Len(name) >= Len(suffix)
      /\ Fold(SubSeq(name, Len(name) - Len(suffix) + 1, Len(name))) = Fold(suffix)

\* list(item.glob("*" + ext)) or list(item.glob("*" + ext.upper())) for some ext
HasImages(d) ==
  \E i \in DOMAIN image_extensions :
    \E f \in FilesIn(d) :
      GlobMatch(image_extensions[i], f) \/ GlobMatch(Upper(image_extensions[i]), f)

\* how many times the extend() calls of the enumeration list the file
MatchCount(f) ==
  Cardinality({i \in DOMAIN image_extensions : GlobMatch(image_extensions[i], f)})
  + Cardinality({i \in DOMAIN image_extensions :
                   GlobMatch(Upper(image_extensions[i]), f)})

\* Path comparison: by the list of path components
PathLess(f, g) ==
  ListLess([i \in 1..Len(f.dir) |-> Fold(f.dir[i])] \o <<Fold(FileName(f))>>,
           [i \in 1..Len(g.dir) |-> Fold(g.dir[i])] \o <<Fold(FileName(g))>>)

RECURSIVE Repeated(_, _)
\* the files of a sorted sequence, each as often as the patterns matched it
Repeated(seq, i) ==
  IF i > Len(seq) THEN <<>>
  ELSE [k \in 1..MatchCount(seq[i]) |-> seq[i]] \o Repeated(seq, i + 1)

\* image_files after image_files.sort(), for the candidate files S
ImageList(S) ==
  LET matched == {f \in S : MatchCount(f) > 0}
  IN  Repeated(SortSet(matched, {p \in matched \X matched : PathLess(p[1], p[2])}), 1)

(***************************************************************************)
(* Structure classifier.                                                   *)
(***************************************************************************)
is_chapter_based_archive(folder) ==
  LET nested_dirs == SubDirs(folder)
      folder_path == IF Cardinality(nested_dirs) = 1
                     THEN CHOOSE d \in nested_dirs : TRUE
                     ELSE folder
      n_chapter_dirs == Cardinality({d \in SubDirs(folder_path) : HasImages(d)})
      image_files_in_root ==
        Cardinality({f \in FilesIn(folder_path) : Lower(f.ext) \in ExtSet})
  IN  n_chapter_dirs >= 2 \/ (n_chapter_dirs >= 1 /\ image_files_in_root <= 2)

ChapterRootStay(folder) == folder
\* folder_path of process_chapter_based_archive after the nested-directory check
ChapterRoot(folder) ==
  LET nested_dirs == SubDirs(folder)
  IN  IF Cardinality(nested_dirs) = 1
      THEN LET nested_dir == CHOOSE d \in nested_dirs : TRUE
           IN  IF \E d \in SubDirs(nested_dir) : HasImages(d)
               THEN nested_dir ELSE folder
      ELSE folder

DirName(d) == d[Len(d)]
DirNameAfter(d, e) == StrLess(DirName(e), DirName(d))
DirNameLess(d, e) == StrLess(DirName(d), DirName(e))

\* chapter_dirs after chapter_dirs.sort(key=lambda x: x.name)
ChapterDirs(folder) ==
  LET found == {d \in SubDirs(ChapterRoot(folder)) : HasImages(d)}
  IN  SortSet(found, {p \in found \X found : DirNameLess(p[1], p[2])})

(***************************************************************************)
(* Detector results.  A result file is [shape, src, npanels, page]: shape  *)
(* is the JSON layout ("list" of page objects, "multi" = an object with a  *)
(* 'pages' list, "single" = one page object, "none" = no file), src the    *)
(* image the detector read, npanels the length of its 'panels' list and    *)
(* page an embedded 'page' field (0 = the field is absent).  A "list" or   *)
(* "multi" file holds one page object.                                     *)
(***************************************************************************)
NoImage == [dir |-> <<>>, stem |-> <<>>, ext |-> <<>>]
NoData == [shape |-> "none", src |-> NoImage, npanels |-> 0, page |-> 0]

KumikoData(img) ==
  { [shape |-> "list",   src |-> img, npanels |-> 1, page |-> 0],
    [shape |-> "list",   src |-> img, npanels |-> 0, page |-> 0],
    [shape |-> "single", src |-> img, npanels |-> 1, page |-> 2],
    [shape |-> "multi",  src |-> img, npanels |-> 1, page |-> 0] }

\* magi.py main: {"panels": [...]}
MagiData(img) ==
  { [shape |-> "single", src |-> img, npanels |-> n, page |-> 0] : n \in 0..1 }

\* what one detector invocation can do: how subprocess.run ends and the file
\* written (NoData: none)
Runs(data) ==
  { [rc |-> r, wrote |-> NoData] : r \in {"timeout", "error", "nonzero", "zero"} }
  \cup { [rc |-> "zero", wrote |-> d] : d \in data }

EmptyTemp == [s \in Stems |-> NoData]

\* try_kumiko_with_flags: the temporary directory afterwards and the flag returned
TryKumiko(t, stem, run) ==
  LET t2 == IF run.wrote = NoData THEN t ELSE [t EXCEPT ![stem] = run.wrote]
  IN  [temp |-> t2, success |-> run.rc = "zero" /\ t2[stem] # NoData]

\* process_image_with_kumiko: first with --rtl, then without flags
process_image_with_kumiko(t, stem, run1, run2) ==
  LET first == TryKumiko(t, stem, run1)
  IN  IF first.success THEN first ELSE TryKumiko(first.temp, stem, run2)

\* process_image_with_magi: [temp, panels, success] after one invocation;
\* moved says whether shutil.move succeeded
process_image_with_magi(t, pf, stem, run, moved) ==
  LET pf2 == IF run.wrote = NoData THEN pf ELSE run.wrote
  IN  IF run.rc = "zero" /\ pf2 # NoData /\ moved
      THEN [temp |-> [t EXCEPT ![stem] = pf2], panels |-> NoData, success |-> TRUE]
      ELSE [temp |-> t, panels |-> pf2, success |-> FALSE]

(***************************************************************************)
(* Aggregation.  A page record is [page, src, npanels, image, dims]: src   *)
(* the image whose detector result fills the record, image the name in the *)
(* 'image' field and dims the image file whose size normalized the panels  *)
(* (NoImage: none was found).  A document is [kind, total, pages,          *)
(* chapters]; kind "none" = no file, "partial" = a truncated file.         *)
(***************************************************************************)
NoFile == [kind |-> "none", total |-> 0, pages |-> <<>>, chapters |-> <<>>]
Partial == [kind |-> "partial", total |-> 0, pages |-> <<>>, chapters |-> <<>>]

\* stable sort of a sequence by a strict weak order on its elements, given
\* as the set of its pairs <<smaller, larger>>
StableSort(seq, less) ==
  LET n == Len(seq)
      Rank(i) == Cardinality({j \in 1..n : <<seq[j], seq[i]>> \in less})
                 + Cardinality({j \in 1..(i - 1) :
                                  /\ <<seq[j], seq[i]>> \notin less
                                  /\ <<seq[i], seq[j]>> \notin less})
                 + 1
  IN  [p \in 1..n |-> seq[CHOOSE i \in 1..n : Rank(i) = p]]

\* the elements of a sequence
Range(seq) == {seq[i] : i \in 1..Len(seq)}

RECURSIVE Flatten(_, _)
Flatten(seqs, i) == IF i > Len(seqs) THEN <<>> ELSE seqs[i] \o Flatten(seqs, i + 1)

PageLess(a, b) == a.page < b.page

\* sorted(json_files): Path comparison of <temp dir>/<stem>.json
KumikoJsonLess(a, b) == StrLess(Fold(a \o JsonSuffix), Fold(b \o JsonSuffix))

\* preprocess_page_data, the page number: kept when the object carries one
preprocess_page_data(data, page_num) ==
  [page |-> IF data.page # 0 THEN data.page ELSE page_num,
   src |-> data.src, npanels |-> data.npanels,
   image |-> FileName(data.src), dims |-> data.src]

\* the records one result file contributes, enumerated as page_num
KumikoFilePages(data, page_num) ==
  IF data.shape = "none" \/ data.npanels = 0 THEN <<>>
  ELSE IF data.shape = "multi" THEN <<preprocess_page_data(data, 1)>>
  ELSE <<preprocess_page_data(data, page_num)>>

\* pages_data of combine_jsons_to_json after pages_data.sort(key=page)
KumikoPagesData(t, files) ==
  LET names == Range(files)
      sorted == StableSort(files, {p \in names \X names : KumikoJsonLess(p[1], p[2])})
      pages == Flatten([i \in 1..Len(sorted) |-> KumikoFilePages(t[sorted[i]], i)], 1)
      recs == Range(pages)
  IN  StableSort(pages, {p \in recs \X recs : PageLess(p[1], p[2])})

\* existing_json_files.sort(key=lambda x: x.name)
MagiJsonLess(a, b) == StrLess(a \o PanelsSuffix, b \o PanelsSuffix)

\* the files in the unit's folder that the candidate path <stem><ext> names
MagiCandidate(stem, ext, folder) ==
  {f \in FilesIn(folder) : Fold(FileName(f)) = Fold(stem \o ext)}

\* the lookup over ['.jpg', '.jpeg', '.png'], lower case before upper case:
\* [file, name] of the first candidate that exists, file = NoImage if none does
MagiLookup(stem, folder) ==
  LET Lo(i) == MagiCandidate(stem, image_extensions[i], folder)
      Up(i) == MagiCandidate(stem, Upper(image_extensions[i]), folder)
      hits == {i \in 1..3 : Lo(i) \cup Up(i) # {}}
      first == CHOOSE i \in hits : \A k \in hits : i <= k
  IN  IF hits = {}
      THEN [file |-> NoImage, name |-> stem \o image_extensions[1]]
      ELSE IF Lo(first) # {}
      THEN [file |-> CHOOSE f \in Lo(first) : TRUE,
            name |-> stem \o image_extensions[first]]
      ELSE [file |-> CHOOSE f \in Up(first) : TRUE,
            name |-> stem \o Upper(image_extensions[first])]

\* pages_data of combine_jsons_to_final_json
MagiPagesData(t, files, folder) ==
  LET existing == SelectSeq(files, LAMBDA s : t[s] # NoData)
      names == Range(existing)
      sorted == StableSort(existing, {p \in names \X names : MagiJsonLess(p[1], p[2])})
  IN  [i \in 1..Len(sorted) |->
         LET found == MagiLookup(sorted[i], folder)
         IN  [page |-> i, src |-> t[sorted[i]].src, npanels |-> t[sorted[i]].npanels,
              image |-> found.name, dims |-> found.file]]

PagesData(t, files, folder) ==
  IF pipeline = "kumiko" THEN KumikoPagesData(t, files)
  ELSE MagiPagesData(t, files, folder)

\* a document whose total_pages counts one page more than it holds
ChapterDocumentMiscounted(pages) ==
  [kind |-> "chapter", total |-> Len(pages) + 1, pages |-> pages, chapters |-> <<>>]

ChapterDocument(pages) ==
  [kind |-> "chapter", total |-> Len(pages), pages |-> pages, chapters |-> <<>>]

WriteOutcomes == {"ok", "open_failed", "dump_failed"}

\* open(path, 'w') followed by json.dump(doc): the file afterwards
WriteFile(old, doc, outcome) ==
  IF outcome = "ok" THEN doc
  ELSE IF outcome = "dump_failed" THEN Partial
  ELSE old

(***************************************************************************)
(* Archives.  A name is the sequence of the dot-separated parts after the  *)
(* stem ("vol.tar.gz" is <<"tar", "gz">>), so that Path.suffix, which      *)
(* keeps the last part only, is computed.  An input path is [kind, name,   *)
(* file, content, tool, second]: kind "missing", "dir" or "file"; file     *)
(* says whether the file command runs; content what it reports; tool and   *)
(* second how the first and the second extraction command end.             *)
(***************************************************************************)
ToLower(part) == IF part = "CBZ" THEN "cbz" ELSE part

\* Path.suffix.lower(), as a one-part name
Suffix(name) == IF name = <<>> THEN <<>> ELSE <<ToLower(name[Len(name)])>>

\* the extension list of is_archive
ArchiveExtensions ==
  { <<"cbz">>, <<"zip">>, <<"rar">>, <<"7z">>, <<"tar">>, <<"tar", "gz">>, <<"tgz">>,
    <<"tar", "bz2">>, <<"tbz2">>, <<"tar", "xz">>, <<"txz">> }

is_archive(name) == Suffix(name) \in ArchiveExtensions

\* detect_file_type: the checks on the output of the file command, which
\* names the path before the description ("none": None is returned)
detect_file_type(a) ==
  IF ~a.file THEN "none"
  ELSE IF a.content = "zip" THEN "zip"
  ELSE IF a.content = "rar" THEN "rar"
  ELSE IF a.content = "7z" THEN "7z"
  ELSE IF a.content = "tar" \/ \E i \in 1..Len(a.name) : ToLower(a.name[i]) = "tar"
       THEN "tar"
  ELSE IF a.content = "gzip" THEN "gzip"
  ELSE "none"

\* archive_type of extract_archive ("unsupported": the first return False)
ArchiveType(a) ==
  LET detected_type == detect_file_type(a)
      suffix == Suffix(a.name)
  IN  IF detected_type # "none" THEN detected_type
      ELSE IF suffix \in {<<"cbz">>, <<"zip">>} THEN "zip"
      ELSE IF suffix \in {<<"rar">>} THEN "rar"
      ELSE IF suffix \in {<<"gz">>, <<"gzip">>} THEN "gzip"
      ELSE "unsupported"

\* one strategy whose command raises CalledProcessError ("error") or
\* FileNotFoundError ("absent"); caught lists the outcomes the strategy handles
Strategy(name, outcome, caught) ==
  [strategy |-> name, second |-> FALSE, unsupported |-> FALSE,
   result |-> IF outcome = "ok" THEN "true"
              ELSE IF outcome \in caught THEN "false" ELSE "raised"]

\* extract_archive: [strategy, second, unsupported, result]; second says
\* whether gunzip was run, result is "true", "false" or "raised"
extract_archive(a) ==
  LET archive_type == ArchiveType(a)
      suffix == Suffix(a.name)
      Unsupported == [strategy |-> "none", second |-> FALSE, unsupported |-> TRUE,
                      result |-> "false"]
  IN  IF archive_type = "unsupported" THEN Unsupported
      ELSE IF archive_type = "zip" THEN Strategy("zip", a.tool, {"error", "absent"})
      ELSE IF archive_type = "gzip"
      THEN IF a.tool = "error"
           THEN [strategy |-> "gzip", second |-> TRUE, unsupported |-> FALSE,
                 result |-> IF a.second = "ok" THEN "true" ELSE "false"]
           ELSE Strategy("gzip", a.tool, {})
      ELSE IF suffix \in {<<"rar">>} THEN Strategy("rar", a.tool, {"error", "absent"})
      ELSE IF suffix \in {<<"7z">>} THEN Strategy("7z", a.tool, {"error", "absent"})
      ELSE IF suffix \in {<<"tar">>, <<"tar", "gz">>, <<"tgz">>, <<"tar", "bz2">>,
                          <<"tbz2">>, <<"tar", "xz">>, <<"txz">>}
      THEN Strategy("tar", a.tool, {"error"})
      ELSE Unsupported

\* the names, contents and command outcomes an input path is drawn from
ArchiveNames ==
  ArchiveExtensions \cup {<<"CBZ">>, <<"gz">>, <<"txt">>, <<>>}

Contents == {"zip", "rar", "7z", "tar", "gzip", "other"}

ToolOutcomes == {"ok", "error", "absent"}

\* an input that is a directory, and one that does not exist
DirInput == [kind |-> "dir", name |-> <<>>, file |-> TRUE, content |-> "other",
             tool |-> "ok", second |-> "ok"]

MissingInput == [DirInput EXCEPT !.kind = "missing"]

ArchiveInputs ==
  {DirInput, MissingInput} \cup
  [kind : {"file"}, name : ArchiveNames, file : BOOLEAN, content : Contents,
   tool : ToolOutcomes, second : ToolOutcomes]

\* nothing was done with the input yet
NoExtraction == [by |-> "none", route |-> "none", strategy |-> "none",
                 second |-> FALSE, unsupported |-> FALSE, result |-> "none"]

(***************************************************************************)
(* Directory listings.  iterdir, glob and rglob return the entries in an   *)
(* order the filesystem chooses: o is a sequence holding every file of the *)
(* tree once, and a listing returns its entries in the order of o (a       *)
(* directory where its first file stands).                                 *)
(***************************************************************************)
Orders(t) ==
  {o \in [1..Cardinality(t) -> t] : \A i, k \in DOMAIN o : o[i] = o[k] => i = k}

\* the files of S as the filesystem returns them
Listing(o, S) == SelectSeq(o, LAMBDA f : f \in S)

RECURSIVE Distinct(_)
\* a sequence without the later occurrences of its elements
Distinct(seq) ==
  IF seq = <<>> THEN <<>>
  ELSE LET front == Distinct(SubSeq(seq, 1, Len(seq) - 1))
           x == seq[Len(seq)]
       IN  IF x \in Range(front) THEN front ELSE Append(front, x)

\* [d for d in folder.iterdir() if d.is_dir()] as a list
DirListing(o, folder) ==
  LET below == Listing(o, {f \in tree : IsPrefix(folder, f.dir)
                                        /\ Len(f.dir) > Len(folder)})
  IN  Distinct([i \in 1..Len(below) |-> SubSeq(below[i].dir, 1, Len(folder) + 1)])

\* image_files after the extend() calls over image_extensions, before the sort
GlobList(o, S) ==
  Flatten([i \in 1..Len(image_extensions) |->
             Listing(o, {f \in S : GlobMatch(image_extensions[i], f)})
             \o Listing(o, {f \in S : GlobMatch(Upper(image_extensions[i]), f)})], 1)

ImageListUnsorted(o, S) == GlobList(o, S)
\* image_files after image_files.sort()
ImageListIn(o, S) ==
  StableSort(GlobList(o, S), {p \in S \X S : PathLess(p[1], p[2])})

\* folder_path of process_chapter_based_archive: nested_dirs[0] when it is the
\* only subdirectory and one of its subdirectories holds images
ChapterRootIn(o, folder) ==
  LET nested_dirs == DirListing(o, folder)
  IN  IF Len(nested_dirs) = 1
         /\ \E i \in 1..Len(DirListing(o, nested_dirs[1])) :
              HasImages(DirListing(o, nested_dirs[1])[i])
      THEN nested_dirs[1] ELSE folder

\* chapter_dirs after chapter_dirs.sort(key=lambda x: x.name)
ChapterDirsIn(o, folder) ==
  LET found == SelectSeq(DirListing(o, ChapterRootIn(o, folder)), HasImages)
  IN  StableSort(found, {p \in Range(found) \X Range(found) : DirNameLess(p[1], p[2])})

\* what a run lists under the order o: the images of the whole folder, the
\* chapter directories, and the images of each chapter directory
RunListing(o) ==
  LET chapters == ChapterDirsIn(o, <<>>)
  IN  [images |-> ImageListIn(o, FilesUnder(<<>>)),
       chapters |-> chapters,
       pages |-> [i \in 1..Len(chapters) |-> ImageListIn(o, FilesIn(chapters[i]))]]

(***************************************************************************)
(* The output directory and the state before a run.                        *)
(***************************************************************************)
\* document names in the output directory: <<>> is <folder>.json, <<c>> is
\* <folder>_<c>.json
OutNames == {<<>>} \cup {<<DirName(d)>> : d \in Dirs \ {<<>>}}

\* a chapter document an earlier run left behind
StaleDocument ==
  [kind |-> "chapter", total |-> 1,
   pages |-> <<[page |-> 1, src |-> NoImage, npanels |-> 1, image |-> <<>>,
                dims |-> NoImage]>>,
   chapters |-> <<>>]

Idle ==
  /\ written = {}
  /\ pc = "start"
  /\ mode = "none"
  /\ chapter_dirs = <<>>
  /\ chIdx = 0
  /\ image_files = <<>>
  /\ imgIdx = 0
  /\ temp = EmptyTemp
  /\ json_files = <<>>
  /\ panels_file = NoData
  /\ successful_chapters = 0
  /\ temps = {}
  /\ lastWrite = "none"
  /\ result = "running"
  /\ history = [survivors |-> <<>>, failed |-> FALSE, unwritten |-> FALSE,
                attempts |-> <<>>,
                last |-> [calls |-> <<>>, wrote |-> FALSE, success |-> FALSE]]

(***************************************************************************)
(* SpecNorm: the normalizers on bounded inputs.                            *)
(***************************************************************************)
\* original image sizes (width, height)
Sizes == { <<1600, 2400>>, <<1078, 1078>>, <<537, 895>>, <<800, 600>>, <<400, 300>> }

\* raw detector boxes: [x1, y1, x2, y2] for MAGI, [x, y, w, h] for Kumiko
Boxes == { <<100, 100, 300, 500>>,   \* the box of the worked example
           <<0, 0, 400, 400>>,
           <<2, 6, 12, 20>>,         \* quotients that end in 5 at the fourth decimal
           <<700, 100, 900, 500>>,   \* reaches past an 800 pixel wide image
           <<300, 100, 100, 500>>,   \* x2 < x1
           <<0, 0, 1, 1>> }

NormInputs == [size : Sizes, box : Boxes, dims : BOOLEAN, form : {"list", "dict"}]

NoOutput == [by |-> "none", den |-> <<0, 0>>,
             panel |-> [x |-> 0, y |-> 0, w |-> 0, h |-> 0, dx |-> 1, dy |-> 1,
                        kept |-> FALSE]]

NormInit ==
  /\ nin \in NormInputs
  /\ nout = NoOutput
  /\ ain = DirInput
  /\ aout = NoExtraction
  /\ order = <<>>
  /\ listed = <<>>
  /\ pipeline = "none"
  /\ ci = FALSE
  /\ tree = {}
  /\ out = [k \in OutNames |-> NoFile]
  /\ Idle

NormalizeMagi ==
  /\ nout = NoOutput
  /\ nout' = [by |-> "magi",
              den |-> MagiCoordSize(nin.size[1], nin.size[2]),
              panel |-> MagiPanel(nin.box, nin.size[1], nin.size[2])]
  /\ UNCHANGED <<nin, archVars, listVars, pipeVars>>

NormalizeKumiko ==
  /\ nout = NoOutput
  /\ nout' = [by |-> "kumiko",
              den |-> <<nin.size[1], nin.size[2]>>,
              panel |-> KumikoPanel(nin.form, nin.box, nin.dims,
                                    nin.size[1], nin.size[2])]
  /\ UNCHANGED <<nin, archVars, listVars, pipeVars>>

NormNext == NormalizeMagi \/ NormalizeKumiko

SpecNorm == NormInit /\ [][NormNext]_vars

(***************************************************************************)
(* SpecArch: one input path, given either to extract_archive directly or   *)
(* to process_input, whose head decides between a missing input, an        *)
(* archive to extract, a directory and an unsupported input.  The route    *)
(* "pipeline" stands for the classification and processing that follow.    *)
(***************************************************************************)
ArchInit ==
  /\ nin = CHOOSE i \in NormInputs : TRUE
  /\ nout = NoOutput
  /\ ain \in ArchiveInputs
  /\ aout = NoExtraction
  /\ order = <<>>
  /\ listed = <<>>
  /\ pipeline = "none"
  /\ ci = FALSE
  /\ tree = {}
  /\ out = [k \in OutNames |-> NoFile]
  /\ Idle

\* extract_archive(archive_path, extract_to) on an existing file
ExtractArchive ==
  /\ aout = NoExtraction
  /\ ain.kind = "file"
  /\ LET e == extract_archive(ain)
     IN  aout' = [by |-> "extract_archive", route |-> "archive",
                  strategy |-> e.strategy, second |-> e.second,
                  unsupported |-> e.unsupported, result |-> e.result]
  /\ UNCHANGED <<normVars, ain, listVars, pipeVars>>

\* process_input up to the classification of the folder to process
ProcessInputHead ==
  /\ aout = NoExtraction
  /\ LET Routed(route, res) ==
           [NoExtraction EXCEPT !.by = "process_input", !.route = route,
                                !.result = res]
         e == extract_archive(ain)
     IN  aout' =
           IF ain.kind = "missing" THEN Routed("missing", "false")
           ELSE IF is_archive(ain.name)
           THEN [by |-> "process_input", route |-> "archive",
                 strategy |-> e.strategy, second |-> e.second,
                 unsupported |-> e.unsupported,
                 result |-> IF e.result = "true" THEN "pipeline" ELSE e.result]
           ELSE IF ain.kind = "dir" THEN Routed("directory", "pipeline")
           ELSE Routed("unsupported_input", "false")
  /\ UNCHANGED <<normVars, ain, listVars, pipeVars>>

ArchNext == ExtractArchive \/ ProcessInputHead

SpecArch == ArchInit /\ [][ArchNext]_vars

(***************************************************************************)
(* SpecList: two runs on one input tree, each under its own order of the   *)
(* directory entries; a run's step takes the listings it works from.       *)
(***************************************************************************)
ListInit ==
  /\ nin = CHOOSE i \in NormInputs : TRUE
  /\ nout = NoOutput
  /\ ain = DirInput
  /\ aout = NoExtraction
  /\ pipeline = "none"
  /\ ci \in BOOLEAN
  /\ tree \in Trees(ci)
  /\ order \in Orders(tree) \X Orders(tree)
  /\ listed = <<>>
  /\ out = [k \in OutNames |-> NoFile]
  /\ Idle

\* the first run lists the tree
ListFirst ==
  /\ listed = <<>>
  /\ listed' = <<RunListing(order[1])>>
  /\ UNCHANGED <<normVars, archVars, order, pipeVars>>

\* the second run lists the same tree
ListSecond ==
  /\ Len(listed) = 1
  /\ listed' = Append(listed, RunListing(order[2]))
  /\ UNCHANGED <<normVars, archVars, order, pipeVars>>

ListNext == ListFirst \/ ListSecond

SpecList == ListInit /\ [][ListNext]_vars

(***************************************************************************)
(* One run of process_input on the input folder.                           *)
(***************************************************************************)
Init ==
  /\ nin = CHOOSE i \in NormInputs : TRUE
  /\ nout = NoOutput
  /\ ain = DirInput
  /\ aout = NoExtraction
  /\ order = <<>>
  /\ listed = <<>>
  /\ pipeline \in {"kumiko", "magi"}
  /\ ci \in BOOLEAN
  /\ tree \in Trees(ci)
  /\ out \in {[k \in OutNames |-> NoFile], [k \in OutNames |-> StaleDocument]}
  /\ Idle

\* the folder of the unit being processed and the name of its document
UnitFolder == IF mode = "flat" THEN <<>> ELSE chapter_dirs[chIdx]
UnitName == IF mode = "flat" THEN <<>> ELSE <<DirName(chapter_dirs[chIdx])>>

\* process_input -> process_with_kumiko / process_with_magi, up to the image list
RouteFlat ==
  /\ pc = "start"
  /\ ~is_chapter_based_archive(<<>>)
  /\ mode' = "flat"
  /\ temps' = temps \cup {<<>>}
  /\ image_files' = ImageList(FilesUnder(<<>>))
  /\ IF image_files' = <<>>
     THEN pc' = "done" /\ result' = "failed"
     ELSE pc' = "detect" /\ result' = result
  /\ UNCHANGED <<normVars, archVars, listVars, pipeline, ci, tree, out, written, chapter_dirs, chIdx,
                 imgIdx, temp, json_files, panels_file, successful_chapters,
                 lastWrite, history>>

\* process_input -> process_chapter_based_archive, up to the chapter loop
RouteChapters ==
  /\ pc = "start"
  /\ is_chapter_based_archive(<<>>)
  /\ mode' = "chapters"
  /\ chapter_dirs' = ChapterDirs(<<>>)
  /\ IF chapter_dirs' = <<>>
     THEN pc' = "done" /\ result' = "failed" /\ chIdx' = chIdx
     ELSE pc' = "chapter" /\ result' = result /\ chIdx' = 1
  /\ UNCHANGED <<normVars, archVars, listVars, pipeline, ci, tree, out, written, image_files, imgIdx,
                 temp, json_files, panels_file, successful_chapters, temps,
                 lastWrite, history>>

\* the chapter loop, from the temporary directory to the image list
StartChapter ==
  /\ pc = "chapter"
  /\ temps' = temps \cup {UnitName}
  /\ temp' = EmptyTemp
  /\ image_files' = ImageList(FilesIn(chapter_dirs[chIdx]))
  /\ imgIdx' = 0
  /\ json_files' = <<>>
  /\ lastWrite' = "none"
  /\ pc' = IF image_files' = <<>> THEN "finished" ELSE "detect"
  /\ history' = [history EXCEPT !.survivors = <<>>,
                                !.attempts = Append(@, chapter_dirs[chIdx])]
  /\ UNCHANGED <<normVars, archVars, listVars, pipeline, ci, tree, out, written, mode, chapter_dirs,
                 chIdx, panels_file, successful_chapters, result>>

\* one turn of "for image_file in image_files" of the Kumiko pipeline
DetectKumiko ==
  /\ pc = "detect"
  /\ pipeline = "kumiko"
  /\ imgIdx < Len(image_files)
  /\ LET img == image_files[imgIdx + 1]
     IN  \E run1, run2 \in Runs(KumikoData(img)) :
           LET r == process_image_with_kumiko(temp, img.stem, run1, run2)
               again == ~TryKumiko(temp, img.stem, run1).success
               last == [calls |-> IF again THEN <<run1.rc, run2.rc>> ELSE <<run1.rc>>,
                        wrote |-> run1.wrote # NoData \/ (again /\ run2.wrote # NoData),
                        success |-> r.success]
           IN  /\ temp' = r.temp
               /\ json_files' = IF r.success THEN Append(json_files, img.stem)
                                ELSE json_files
               /\ history' = IF r.success
                             THEN [history EXCEPT !.survivors = Append(@, img),
                                                  !.last = last]
                             ELSE [history EXCEPT !.failed = TRUE, !.last = last]
  /\ imgIdx' = imgIdx + 1
  /\ UNCHANGED <<normVars, archVars, listVars, pipeline, ci, tree, out, written, pc, mode, chapter_dirs,
                 chIdx, image_files, panels_file, successful_chapters, temps,
                 lastWrite, result>>

\* one turn of "for image_file in image_files" of the MAGI pipeline
DetectMagi ==
  /\ pc = "detect"
  /\ pipeline = "magi"
  /\ imgIdx < Len(image_files)
  /\ LET img == image_files[imgIdx + 1]
     IN  \E run \in Runs(MagiData(img)), moved \in BOOLEAN :
           LET r == process_image_with_magi(temp, panels_file, img.stem, run, moved)
           IN  /\ temp' = r.temp
               /\ panels_file' = r.panels
               /\ json_files' = IF r.success THEN Append(json_files, img.stem)
                                ELSE json_files
               /\ history' =
                    LET last == [calls |-> <<run.rc>>, wrote |-> run.wrote # NoData,
                                 success |-> r.success]
                    IN  IF r.success
                        THEN [history EXCEPT !.survivors = Append(@, img), !.last = last]
                        ELSE [history EXCEPT !.failed = TRUE, !.last = last]
  /\ imgIdx' = imgIdx + 1
  /\ UNCHANGED <<normVars, archVars, listVars, pipeline, ci, tree, out, written, pc, mode, chapter_dirs,
                 chIdx, image_files, successful_chapters, temps, lastWrite, result>>

\* "if not json_files": no detection of the unit succeeded
NoResults ==
  /\ pc = "detect"
  /\ imgIdx = Len(image_files)
  /\ json_files = <<>>
  /\ IF mode = "flat"
     THEN pc' = "done" /\ result' = "failed"
     ELSE pc' = "finished" /\ result' = result
  /\ UNCHANGED <<normVars, archVars, listVars, pipeline, ci, tree, out, written, mode, chapter_dirs,
                 chIdx, image_files, imgIdx, temp, json_files, panels_file,
                 successful_chapters, temps, lastWrite, history>>

\* combine_jsons_to_json / combine_jsons_to_final_json on the unit's result
\* files, then the removal of the temporary directory
Combine ==
  /\ pc = "detect"
  /\ imgIdx = Len(image_files)
  /\ json_files # <<>>
  /\ LET pages_data == PagesData(temp, json_files, UnitFolder)
     IN  IF pages_data = <<>>
         THEN lastWrite' = "nopages" /\ UNCHANGED <<out, written>>
         ELSE \E outcome \in WriteOutcomes :
                /\ lastWrite' = outcome
                /\ out' = [out EXCEPT
                             ![UnitName] = WriteFile(@, ChapterDocument(pages_data),
                                                     outcome)]
                /\ written' = IF outcome = "ok" THEN written \cup {UnitName}
                              ELSE written
  /\ successful_chapters' = IF mode = "chapters" /\ lastWrite' = "ok"
                            THEN successful_chapters + 1 ELSE successful_chapters
  /\ history' = [history EXCEPT !.unwritten = @ \/ lastWrite' \in {"open_failed", "dump_failed"}]
  /\ temps' = temps \ {UnitName}
  /\ pc' = "finished"
  /\ UNCHANGED <<normVars, archVars, listVars, pipeline, ci, tree, mode, chapter_dirs, chIdx,
                 image_files, imgIdx, temp, json_files, panels_file, result>>

\* "return success" of process_with_kumiko / process_with_magi
ReturnFlat ==
  /\ pc = "finished"
  /\ mode = "flat"
  /\ result' = IF lastWrite = "ok" THEN "ok" ELSE "failed"
  /\ pc' = "done"
  /\ UNCHANGED <<normVars, archVars, listVars, pipeline, ci, tree, out, written, mode, chapter_dirs,
                 chIdx, image_files, imgIdx, temp, json_files, panels_file,
                 successful_chapters, temps, lastWrite, history>>

\* the chapter loop moves on
NextChapter ==
  /\ pc = "finished"
  /\ mode = "chapters"
  /\ chIdx < Len(chapter_dirs)
  /\ chIdx' = chIdx + 1
  /\ pc' = "chapter"
  /\ UNCHANGED <<normVars, archVars, listVars, pipeline, ci, tree, out, written, mode, chapter_dirs,
                 image_files, imgIdx, temp, json_files, panels_file,
                 successful_chapters, temps, lastWrite, result, history>>

\* "if successful_chapters == 0: return False"
NoChapters ==
  /\ pc = "finished"
  /\ mode = "chapters"
  /\ chIdx = Len(chapter_dirs)
  /\ successful_chapters = 0
  /\ result' = "failed"
  /\ pc' = "done"
  /\ UNCHANGED <<normVars, archVars, listVars, pipeline, ci, tree, out, written, mode, chapter_dirs,
                 chIdx, image_files, imgIdx, temp, json_files, panels_file,
                 successful_chapters, temps, lastWrite, history>>

\* the chapters whose document exists in the output directory, in order
Present == SelectSeq(chapter_dirs, LAMBDA d : out[<<DirName(d)>>].kind # "none")
Readable == SelectSeq(Present, LAMBDA d : out[<<DirName(d)>>].kind # "partial")

IndexEntry(d) ==
  [name |-> DirName(d), json_file |-> <<DirName(d)>>,
   total_pages |-> out[<<DirName(d)>>].total]

IndexDocument(dirs) ==
  [kind |-> "index", total |-> successful_chapters, pages |-> <<>>,
   chapters |-> [i \in 1..Len(dirs) |-> IndexEntry(dirs[i])]]

\* the master index.  Kumiko: one try block around reading and writing, so
\* an unreadable chapter document abandons the index.  MAGI: an unreadable
\* chapter document is skipped.
BuildIndex ==
  /\ pc = "finished"
  /\ mode = "chapters"
  /\ chIdx = Len(chapter_dirs)
  /\ successful_chapters > 0
  /\ IF pipeline = "kumiko" /\ Readable # Present
     THEN /\ lastWrite' = "unreadable"
          /\ result' = "failed"
          /\ UNCHANGED <<out, written>>
     ELSE \E outcome \in WriteOutcomes :
            /\ lastWrite' = outcome
            /\ out' = [out EXCEPT ![<<>>] = WriteFile(@, IndexDocument(Readable),
                                                      outcome)]
            /\ written' = IF outcome = "ok" THEN written \cup {<<>>} ELSE written
            /\ result' = IF outcome = "ok" THEN "ok" ELSE "failed"
  /\ history' = [history EXCEPT !.unwritten = @ \/ lastWrite' # "ok"]
  /\ pc' = "done"
  /\ UNCHANGED <<normVars, archVars, listVars, pipeline, ci, tree, mode, chapter_dirs, chIdx,
                 image_files, imgIdx, temp, json_files, panels_file,
                 successful_chapters, temps>>

Next ==
  \/ RouteFlat
  \/ RouteChapters
  \/ StartChapter
  \/ DetectKumiko
  \/ DetectMagi
  \/ NoResults
  \/ Combine
  \/ ReturnFlat
  \/ NextChapter
  \/ NoChapters
  \/ BuildIndex

Spec == Init /\ [][Next]_vars

(***************************************************************************)
(* Properties of the normalizers (SpecNorm).  A panel coordinate is the    *)
(* fraction numerator / denominator: x and w over dx, y and h over dy.     *)
(***************************************************************************)

\* C1: every panel a pipeline writes has x, y, w, h within [0,1] and
\* x+w <= 1.001, y+h <= 1.001, also for a box that reaches past the image or
\* has x2 < x1.
C1_PanelsWithinUnitSquare ==
  (nout.by # "none" /\ nout.panel.kept) =>
    LET p == nout.panel
    IN  /\ 0 <= p.x /\ p.x <= p.dx
        /\ 0 <= p.w /\ p.w <= p.dx
        /\ 0 <= p.y /\ p.y <= p.dy
        /\ 0 <= p.h /\ p.h <= p.dy
        /\ 1000 * (p.x + p.w) <= 1001 * p.dx
        /\ 1000 * (p.y + p.h) <= 1001 * p.dy

\* C2: the MAGI normalizer divides by (floor(origW*800/max), floor(origH*800/max))
\* when max(origW, origH) > 800 and by (origW, origH) otherwise, and writes
\* x1/denW, y1/denH, (x2-x1)/denW, (y2-y1)/denH rounded to 3 decimals.
C2_MagiDenominators ==
  nout.by = "magi" =>
    LET origW == nin.size[1]
        origH == nin.size[2]
        m == Max(origW, origH)
        denW == IF m > 800 THEN (origW * 800) \div m ELSE origW
        denH == IF m > 800 THEN (origH * 800) \div m ELSE origH
        Abs(v) == IF v < 0 THEN -v ELSE v
        \* t thousandths is n/d rounded to 3 decimals
        Rounded(t, n, d) == 2 * Abs(t * d - 1000 * n) <= d
        b == nin.box
        p == nout.panel
    IN  /\ nout.den = <<denW, denH>>
        /\ Rounded(p.x, b[1], denW)
        /\ Rounded(p.y, b[2], denH)
        /\ Rounded(p.w, b[3] - b[1], denW)
        /\ Rounded(p.h, b[4] - b[2], denH)

(***************************************************************************)
(* Properties of a run (Spec).  The unit's document is judged in the state *)
(* pc = "finished", right after the aggregation of the unit.               *)
(***************************************************************************)

\* C3: the written document of a unit holds exactly one record per image
\* whose detection succeeded, numbered 1..N-k without gap or repeat, in the
\* enumeration order of those images.  Stated for detector results that
\* carry no page number of their own.
C3_ContiguousPageNumbers ==
  (pc = "finished" /\ lastWrite = "ok" /\ \A st \in Stems : temp[st].page = 0) =>
    LET doc == out[UnitName]
        survivors == history.survivors
    IN  /\ Len(doc.pages) = Len(survivors)
        /\ doc.total = Len(survivors)
        /\ \A i \in 1..Len(doc.pages) :
             doc.pages[i].page = i /\ doc.pages[i].src = survivors[i]

\* C4: a unit with at least one successful detection succeeds and its
\* document is written, even when every detected image has zero panels;
\* every detected image has a record (with an empty panel list when the
\* detector found none) and an image whose detection failed has none.
\* Stated for runs in which the file system accepts the write.
C4_ZeroPanelUnitSucceeds ==
  (/\ pc = "finished"
   /\ history.survivors # <<>>
   /\ lastWrite \notin {"open_failed", "dump_failed"}) =>
    LET doc == out[UnitName]
        survivors == history.survivors
    IN  /\ lastWrite = "ok"
        /\ UnitName \in written
        /\ \A i \in 1..Len(survivors) :
             \E j \in 1..Len(doc.pages) : doc.pages[j].src = survivors[i]
        /\ \A j \in 1..Len(doc.pages) :
             \E i \in 1..Len(survivors) : doc.pages[j].src = survivors[i]

\* C5: the run is routed as chapter-based exactly when chapterDirs >= 2 or
\* (chapterDirs >= 1 and rootImages <= 2), chapterDirs counting the
\* subdirectories that hold an image and rootImages the loose images of the
\* folder (after the descent into a wrapping folder whose subdirectories
\* hold images).
C5_ClassifierThreshold ==
  pc # "start" =>
    LET IsImage(f) == Lower(f.ext) \in ExtSet
        Holds(d) == \E f \in FilesIn(d) : IsImage(f)
        nested == SubDirs(<<>>)
        folder == IF Cardinality(nested) = 1
                     /\ \E d \in SubDirs(CHOOSE n \in nested : TRUE) : Holds(d)
                  THEN CHOOSE n \in nested : TRUE
                  ELSE <<>>
        chapterDirs == Cardinality({d \in SubDirs(folder) : Holds(d)})
        rootImages == Cardinality({f \in FilesIn(folder) : IsImage(f)})
    IN  (mode = "chapters") <=>
          (chapterDirs >= 2 \/ (chapterDirs >= 1 /\ rootImages <= 2))

\* C6: an index written by a chapter-based run lists exactly the chapters
\* whose document this run wrote, total_chapters counts them, and every
\* entry's total_pages is that of the chapter's document on disk.
C6_IndexListsProducedChapters ==
  (pc = "done" /\ mode = "chapters" /\ <<>> \in written) =>
    LET index == out[<<>>]
        produced == SelectSeq(chapter_dirs, LAMBDA d : <<DirName(d)>> \in written)
    IN  /\ Len(index.chapters) = Len(produced)
        /\ \A i \in 1..Len(index.chapters) :
             /\ i <= Len(produced) => index.chapters[i].name = DirName(produced[i])
             /\ index.chapters[i].total_pages = out[index.chapters[i].json_file].total
        /\ index.total = Len(produced)

\* C7: for a chapter-based folder whose images are all detected (and whose
\* documents the file system accepts), the run writes one document per
\* chapter directory with total_pages = the number of images in it, and an
\* index with total_chapters = the number of chapters and one entry per
\* chapter naming that document.  Stated for folders whose image files
\* have lower-case extensions.
C7_ChapterRunEndToEnd ==
  LET IsImage(f) == Lower(f.ext) \in ExtSet
      Holds(d) == \E f \in FilesIn(d) : IsImage(f)
      nested == SubDirs(<<>>)
      folder == IF Cardinality(nested) = 1
                   /\ \E d \in SubDirs(CHOOSE n \in nested : TRUE) : Holds(d)
                THEN CHOOSE n \in nested : TRUE
                ELSE <<>>
      chapters == {d \in SubDirs(folder) : Holds(d)}
      rootImages == Cardinality({f \in FilesIn(folder) : IsImage(f)})
      chapterBased == Cardinality(chapters) >= 2
                      \/ (Cardinality(chapters) >= 1 /\ rootImages <= 2)
      index == out[<<>>]
  IN  (/\ pc = "done"
       /\ chapterBased
       /\ \A f \in tree : f.ext \in ExtSet
       /\ ~history.failed
       /\ ~history.unwritten) =>
        /\ \A d \in chapters :
             /\ <<DirName(d)>> \in written
             /\ out[<<DirName(d)>>].total
                  = Cardinality({f \in FilesIn(d) : IsImage(f)})
             /\ \E i \in 1..Len(index.chapters) :
                  /\ index.chapters[i].name = DirName(d)
                  /\ index.chapters[i].json_file = <<DirName(d)>>
        /\ <<>> \in written
        /\ index.kind = "index"
        /\ index.total = Cardinality(chapters)
        /\ Len(index.chapters) = Cardinality(chapters)

\* C8: the image list of a unit holds every file at any depth under the
\* unit whose extension is, case-insensitively, one of the six, and holds
\* it exactly once.
C8_EnumerationCompleteAndUnique ==
  ((mode = "flat" /\ pc # "start") \/ (mode = "chapters" /\ pc \in {"detect", "finished"})) =>
    /\ \A f \in FilesUnder(UnitFolder) :
         Lower(f.ext) \in ExtSet =>
           Cardinality({i \in 1..Len(image_files) : image_files[i] = f}) = 1
    /\ \A i \in 1..Len(image_files) :
         image_files[i] \in FilesUnder(UnitFolder)
         /\ Lower(image_files[i].ext) \in ExtSet

\* C9: the page number of a record is the 1-based position of its image
\* among the unit's detected images in enumeration (path) order.  Stated
\* for detector results that carry no page number of their own and hold
\* panels, and for units whose images have pairwise different stems.
C9_PageNumberIsPathPosition ==
  (/\ pc = "finished"
   /\ lastWrite = "ok"
   /\ \A st \in Stems : temp[st].page = 0 /\ temp[st].shape \in {"none", "list", "single"}
   /\ \A st \in Stems : temp[st].shape # "none" => temp[st].npanels > 0
   /\ \A i, k \in 1..Len(image_files) :
        image_files[i].stem = image_files[k].stem => i = k) =>
    LET doc == out[UnitName]
        survivors == history.survivors
    IN  \A j \in 1..Len(doc.pages) :
          /\ doc.pages[j].page \in 1..Len(survivors)
          /\ survivors[doc.pages[j].page] = doc.pages[j].src

\* C10: the page number of a record is its position among the records of
\* the document, never a page number carried by the detector result.
\* Stated for detector results that hold panels.
C10_EmbeddedPageIgnored ==
  (/\ pc = "finished"
   /\ lastWrite = "ok"
   /\ \A st \in Stems : temp[st].shape # "none" => temp[st].npanels > 0) =>
    LET doc == out[UnitName]
    IN  \A j \in 1..Len(doc.pages) : doc.pages[j].page = j

\* C11: in every page document a run writes, total_pages equals the length
\* of the pages list.
C11_TotalPagesIsLength ==
  \A k \in written :
    out[k].kind = "chapter" => out[k].total = Len(out[k].pages)

\* a written page document that holds two pages
C11_Witness ==
  \E k \in written : out[k].kind = "chapter" /\ Len(out[k].pages) = 2

\* C12: a detection that times out, raises, exits non-zero or writes no
\* output file is a skip of that image.  Here: a detection none of whose
\* invocations wrote an output file does not report success.  Stated for
\* units whose images have pairwise different stems.
C12_NoOutputIsSkip ==
  (/\ history.last.calls # <<>>
   /\ ~history.last.wrote
   /\ \A i, k \in 1..Len(image_files) :
        image_files[i].stem = image_files[k].stem => i = k) =>
    ~history.last.success

\* C13: when the content inspection identifies the format of a file,
\* extract_archive runs the extraction strategy of that format whatever the
\* extension is.  Stated for the files whose extension is .cbz.
C13_DetectedFormatIsExtracted ==
  (/\ aout.by = "extract_archive"
   /\ Suffix(ain.name) = <<"cbz">>
   /\ detect_file_type(ain) # "none") =>
    /\ ~aout.unsupported
    /\ aout.strategy = detect_file_type(ain)

\* C14: when the content inspection does not identify the format and the
\* extension is one of .cbz .zip .rar .7z .tar .tgz .tbz2 .txz, extract_archive
\* does not fail as unsupported: it runs the strategy of that extension.
C14_ExtensionResolves ==
  LET suffix == Suffix(ain.name)
      expected == IF suffix \in {<<"cbz">>, <<"zip">>} THEN "zip"
                  ELSE IF suffix = <<"rar">> THEN "rar"
                  ELSE IF suffix = <<"7z">> THEN "7z"
                  ELSE "tar"
  IN  (/\ aout.by = "extract_archive"
       /\ detect_file_type(ain) = "none"
       /\ suffix \in {<<"cbz">>, <<"zip">>, <<"rar">>, <<"7z">>, <<"tar">>,
                      <<"tgz">>, <<"tbz2">>, <<"txz">>}) =>
        /\ ~aout.unsupported
        /\ aout.strategy = expected

\* C15: process_input treats an existing file whose name ends in one of
\* .cbz .zip .rar .7z .tar .tar.gz .tgz .tar.bz2 .tbz2 .tar.xz .txz as an
\* archive, the two-part extensions included.
C15_ArchiveExtensionsAccepted ==
  LET name == ain.name
      EndsIn(e) == /\ Len(name) >= Len(e)
                   /\ SubSeq(name, Len(name) - Len(e) + 1, Len(name)) = e
  IN  (/\ aout.by = "process_input"
       /\ ain.kind = "file"
       /\ \E e \in { <<"cbz">>, <<"zip">>, <<"rar">>, <<"7z">>, <<"tar">>,
                     <<"tar", "gz">>, <<"tgz">>, <<"tar", "bz2">>, <<"tbz2">>,
                     <<"tar", "xz">>, <<"txz">> } : EndsIn(e)) =>
        aout.route = "archive"

\* C16: a run that wrote at least one page document reports success, also
\* when some chapters failed or the index could not be built or written.
C16_SuccessWhenDocumentWritten ==
  (/\ pc = "done"
   /\ \E k \in written : out[k].kind = "chapter") =>
    result = "ok"

\* C17: a document write is all-or-nothing: a step that does not complete
\* the write of a document path leaves at that path what it held before.
C17_WriteAllOrNothing ==
  [][\A k \in OutNames : k \notin written' => out'[k] = out[k]]_vars

C19_ListingOrderIrrelevant ==
  Len(listed) = 2 =>
    /\ listed[1] = listed[2]
    /\ listed[1].images = ImageList(FilesUnder(<<>>))
    /\ listed[1].chapters = ChapterDirs(<<>>)
\* two runs over three images in two chapter directories, the second run
\* receiving the entries in another order than the first
C19_Witness ==
  /\ Len(listed) = 2
  /\ order[1] # order[2]
  /\ Len(listed[2].chapters) = 2
  /\ Len(listed[2].images) = 3
  /\ \E i \in 1..2 : Len(listed[2].pages[i]) = 2

\* C20: when the only immediate subdirectory of the folder has no
\* subdirectory that holds images, the classifier stays at the folder and
\* counts that subdirectory as one chapter directory: if it holds an image and
\* the folder has at most two loose images, the run is routed as chapter-based.
C20_NoDescentWithoutChapters ==
  LET IsImage(f) == Lower(f.ext) \in ExtSet
      Holds(d) == \E f \in FilesIn(d) : IsImage(f)
      nested == SubDirs(<<>>)
      only == CHOOSE n \in nested : TRUE
  IN  (/\ pc # "start"
       /\ Cardinality(nested) = 1
       /\ ~\E d \in SubDirs(only) : Holds(d)
       /\ Holds(only)
       /\ Cardinality({f \in FilesIn(<<>>) : IsImage(f)}) <= 2) =>
        mode = "chapters"

\* C21: when a detector invocation for an image ends by the timeout, the
\* image is skipped and the detector is not invoked again for it.
C21_TimeoutIsNotRetried ==
  LET calls == history.last.calls
  IN  (\E i \in 1..Len(calls) : calls[i] = "timeout") =>
        /\ Len(calls) = 1
        /\ ~history.last.success

\* C22: a step removes a unit's temporary directory only when the unit's
\* document has been written successfully.
C22_TempRemovedAfterWrite ==
  [][\A k \in temps \ temps' : k \in written']_vars

\* C23: for the rar, 7z and tar strategies, what extract_archive returns when
\* the tool is absent differs from what it returns when the tool ran and
\* reported an error, and both are returned (neither is raised).
C23_AbsentToolDistinguishable ==
  (/\ aout.by = "extract_archive"
   /\ aout.strategy \in {"rar", "7z", "tar"}
   /\ ain.tool = "absent") =>
    /\ aout.result # "raised"
    /\ aout.result # extract_archive([ain EXCEPT !.tool = "error"]).result

\* C24: for an archive resolved as gzip the plain gzip decompression is run
\* exactly when the tar+gzip attempt failed; extract_archive returns success
\* when either attempt succeeds and returns failure, without raising, when
\* both fail, an absent tar or gunzip binary included.
C24_GzipFallback ==
  (aout.by = "extract_archive" /\ aout.strategy = "gzip") =>
    /\ aout.second <=> ain.tool # "ok"
    /\ aout.result = IF ain.tool = "ok" \/ ain.second = "ok" THEN "true" ELSE "false"

\* C25: within one unit, two distinct images whose detection succeeded have
\* two distinct result files, also when the two images share a file stem.
C25_DistinctResultFiles ==
  LET survivors == history.survivors
  IN  (pc = "detect" /\ Len(json_files) = Len(survivors)) =>
        \A i, k \in 1..Len(survivors) :
          survivors[i] # survivors[k] => json_files[i] # json_files[k]

\* C26: in the MAGI pipeline the result file of an image whose detection
\* was reported successful holds what the detector wrote for that image,
\* never a panels.json left in the script directory by an earlier invocation.
C26_MagiResultIsOwn ==
  (/\ pipeline = "magi"
   /\ pc = "detect"
   /\ imgIdx > 0
   /\ history.last.success) =>
    temp[image_files[imgIdx].stem].src = image_files[imgIdx]

\* C27: in a page document written by the MAGI pipeline every page is
\* normalized with the resolution read from the image the page was detected
\* on; the fallback size is not used for an image that exists.
C27_MagiSizeFromOwnImage ==
  (/\ pipeline = "magi"
   /\ pc = "finished"
   /\ lastWrite = "ok") =>
    \A i \in 1..Len(out[UnitName].pages) :
      LET page == out[UnitName].pages[i]
      IN  page.src \in tree => page.dims = page.src

\* C28: in every index a run writes, total_chapters equals the number of
\* entries of the chapters list, whatever the output directory held before.
C28_TotalChaptersIsLength ==
  (mode = "chapters" /\ <<>> \in written) =>
    out[<<>>].total = Len(out[<<>>].chapters)

\* C29: whenever the classifier routes a folder as chapter-based, the
\* chapter processor works on the directory the classifier counted in and
\* finds exactly the chapter directories the classifier counted, at least one.
C29_ClassifierAndProcessorAgree ==
  LET nested == SubDirs(<<>>)
      counted_in == IF Cardinality(nested) = 1
                    THEN CHOOSE n \in nested : TRUE ELSE <<>>
      counted == {d \in SubDirs(counted_in) : HasImages(d)}
  IN  (pc # "start" /\ mode = "chapters") =>
        /\ ChapterRoot(<<>>) = counted_in
        /\ Range(chapter_dirs) = counted
        /\ chapter_dirs # <<>>
\* a chapter-based run on a folder whose single subdirectory wraps the
\* chapter directory
C29_Witness ==
  /\ pc # "start"
  /\ mode = "chapters"
  /\ Cardinality(SubDirs(<<>>)) = 1
  /\ Len(chapter_dirs) = 1
  /\ Len(chapter_dirs[1]) = 2

\* C30: when the run has returned, on any path, none of the temporary
\* directories it created remains in the output directory.
C30_NoTempLeftBehind ==
  pc = "done" => temps = {}

====
